---- MODULE Spec2Model ----
(***************************************************************************)
(* diff-format (src/src/main.rs): a filter that echoes the lines of a      *)
(* linter's output whose path:line location lies in a hunk changed since   *)
(* a git reference.                                                        *)
(*                                                                         *)
(* Text is a sequence of characters, each a one-character string; "ESC"    *)
(* stands for U+001B, "u0663" for ARABIC-INDIC DIGIT THREE (a decimal      *)
(* digit that is not ASCII) and "xFF" for a byte that is not valid UTF-8.  *)
(* Four specifications share the variables:                                *)
(*   SearchSpec  the loop of is_number_in_sorted_ranges, one iteration     *)
(*               per step, on any list of ranges;                          *)
(*   ParseSpec   remove_ansi_colors then parse_lint_location on any text;  *)
(*   HunkSpec    generate_hunkmap on any sequence of diff callbacks;       *)
(*   Spec        main, with the diff that libgit2 yields.                  *)
(***************************************************************************)
EXTENDS Integers, Sequences, FiniteSets, TLC

VARIABLES
    ranges, number, low, high, iters, ret,      \* is_number_in_sorted_ranges
    text, stripped, location, ppc,              \* one line through strip and parse
    pc, events, hunkmap, ending,                \* main: setup, diff.foreach, exit
    stdin_read, stdout, failed, exit_code       \* main: the input loop and exit

searchVars == <<ranges, number, low, high, iters, ret>>
parseVars == <<text, stripped, location, ppc>>
mainVars == <<pc, events, hunkmap, ending, stdin_read, stdout, failed, exit_code>>
vars == <<ranges, number, low, high, iters, ret, text, stripped, location, ppc,
          pc, events, hunkmap, ending, stdin_read, stdout, failed, exit_code>>

(***************************************************************************)
(* Bounds of the model.                                                    *)
(***************************************************************************)
MaxRanges == 3      \* longest range list given to the search
MaxLine == 3        \* largest range edge given to the search
MaxTextLen == 5     \* longest text enumerated over the parse alphabet
MaxEvents == 4      \* most callbacks one diff.foreach delivers
MaxInput == 2       \* most lines read from standard input

RECURSIVE SeqsUpTo(_, _)
SeqsUpTo(S, n) ==
    IF n = 0 THEN {<<>>}
    ELSE LET shorter == SeqsUpTo(S, n - 1)
         IN shorter \cup {Append(s, x) : s \in {t \in shorter : Len(t) = n - 1}, x \in S}

Min(S) == CHOOSE x \in S : \A y \in S : x <= y

(***************************************************************************)
(* is_number_in_sorted_ranges                                              *)
(***************************************************************************)
\* The midpoint the loop computes.
Mid(lo, hi) == lo + (hi - lo) \div 2

\* SearchStep with the upper edge compared by < instead of <=.
SearchStep_exclusive_end(rs, n, lo, hi) ==
    LET mid == Mid(lo, hi)
        r == rs[mid + 1]
    IN  IF n >= r[1]
        THEN IF n < r[2]
             THEN [low |-> lo, high |-> hi, ret |-> "true"]
             ELSE [low |-> mid + 1, high |-> hi, ret |-> "running"]
        ELSE [low |-> lo, high |-> mid, ret |-> "running"]

\* SearchStep that reports a hit as soon as number >= start.
SearchStep_start_only(rs, n, lo, hi) ==
    LET mid == Mid(lo, hi)
        r == rs[mid + 1]
    IN  IF n >= r[1]
        THEN [low |-> lo, high |-> hi, ret |-> "true"]
        ELSE [low |-> lo, high |-> mid, ret |-> "running"]

\* SearchStep that moves low to mid instead of mid + 1.
SearchStep_low_to_mid(rs, n, lo, hi) ==
    LET mid == Mid(lo, hi)
        r == rs[mid + 1]
    IN  IF n >= r[1]
        THEN IF n <= r[2]
             THEN [low |-> lo, high |-> hi, ret |-> "true"]
             ELSE [low |-> mid, high |-> hi, ret |-> "running"]
        ELSE [low |-> lo, high |-> mid, ret |-> "running"]

\* One iteration of the while loop: the match on
\* (number >= ranges[mid].0, number <= ranges[mid].1).  Slices are 0-based.
SearchStep(rs, n, lo, hi) ==
    LET mid == Mid(lo, hi)
        r == rs[mid + 1]
    IN  IF n >= r[1]
        THEN IF n <= r[2]
             THEN [low |-> lo, high |-> hi, ret |-> "true"]
             ELSE [low |-> mid + 1, high |-> hi, ret |-> "running"]
        ELSE [low |-> lo, high |-> mid, ret |-> "running"]

RECURSIVE SearchFrom(_, _, _, _)
SearchFrom(rs, n, lo, hi) ==
    IF ~(lo < hi) THEN FALSE
    ELSE LET s == SearchStep(rs, n, lo, hi)
         IN  IF s.ret = "true" THEN TRUE ELSE SearchFrom(rs, n, s.low, s.high)

is_number_in_sorted_ranges(rs, n) == SearchFrom(rs, n, 0, Len(rs))

\* A range as line 73 builds it: start <= end.
Ranges == {<<s, e>> : s \in 0..MaxLine, e \in 0..MaxLine} \ {<<s, e>> \in (0..MaxLine) \X (0..MaxLine) : s > e}

SearchIdleVars == /\ ranges = <<>> /\ number = 0 /\ low = 0 /\ high = 0
                  /\ iters = 0 /\ ret = "idle"
ParseIdleVars == /\ text = <<>> /\ stripped = <<>> /\ ppc = "idle"
                 /\ location = [some |-> FALSE, filename |-> <<>>, line_num |-> 0]
MainIdleVars == /\ pc = "idle" /\ events = <<>> /\ ending = "none"
                /\ hunkmap = <<>> /\ stdin_read = <<>> /\ stdout = <<>>
                /\ failed = FALSE /\ exit_code = -1

\* let mut low = 0; let mut high = ranges.len();
SearchInit ==
    /\ ranges \in SeqsUpTo(Ranges, MaxRanges)
    /\ number \in 0..(MaxLine + 1)
    /\ low = 0
    /\ high = Len(ranges)
    /\ iters = 0
    /\ ret = "running"
    /\ ParseIdleVars
    /\ MainIdleVars

\* while low < high { ... }
LoopIteration ==
    /\ ret = "running"
    /\ low < high
    /\ LET s == SearchStep(ranges, number, low, high)
       IN  /\ low' = s.low
           /\ high' = s.high
           /\ ret' = s.ret
    /\ iters' = iters + 1
    /\ UNCHANGED <<ranges, number>>
    /\ UNCHANGED parseVars
    /\ UNCHANGED mainVars

\* the loop condition fails: false
LoopExit ==
    /\ ret = "running"
    /\ ~(low < high)
    /\ ret' = "false"
    /\ UNCHANGED <<ranges, number, low, high, iters>>
    /\ UNCHANGED parseVars
    /\ UNCHANGED mainVars

SearchNext == LoopIteration \/ LoopExit

SearchSpec == SearchInit /\ [][SearchNext]_vars

(***************************************************************************)
(* Claims about is_number_in_sorted_ranges (SearchSpec)                    *)
(***************************************************************************)
\* The reference: a linear scan with both edges inclusive.
InSomeRange(rs, n) == \E i \in 1..Len(rs) : rs[i][1] <= n /\ n <= rs[i][2]

SortedByStart(rs) == \A i \in 1..(Len(rs) - 1) : rs[i][1] <= rs[i + 1][1]

NonOverlapping(rs) ==
    \A i, j \in 1..Len(rs) : i < j => (rs[i][2] < rs[j][1] \/ rs[j][2] < rs[i][1])

FloorLog2(k) == Min({e \in 0..k : 2 * (IF e = 0 THEN 1 ELSE 2 ^ e) > k})

SearchReturned == ret \in {"true", "false"}

\* C1: on a list sorted ascending by start and pairwise non-overlapping (the
\* empty list included) the search returns true exactly when some range has
\* start <= number <= end, as a linear scan does.
C1_AgreesWithLinearScan ==
    (SearchReturned /\ SortedByStart(ranges) /\ NonOverlapping(ranges))
        => ((ret = "true") <=> InSomeRange(ranges, number))

\* C1 witness: three sorted disjoint ranges, the hit found in the second
\* iteration at the inclusive upper edge of a range wider than one line.
C1_Witness ==
    /\ ret = "true" /\ iters = 2 /\ Len(ranges) = 3
    /\ SortedByStart(ranges) /\ NonOverlapping(ranges)
    /\ \E i \in 1..3 : ranges[i][2] = number /\ ranges[i][1] < number

\* C9: on any list, unsorted or overlapping ones included, a true result means
\* some range of the list has start <= number <= end.
C9_TrueIsSound == (ret = "true") => InSomeRange(ranges, number)

\* C9 witness: the search returns true on a list that is neither sorted nor
\* free of overlaps.
C9_Witness ==
    /\ ret = "true" /\ iters = 2
    /\ ~SortedByStart(ranges) /\ ~NonOverlapping(ranges)

\* C10: in every iteration 0 <= low <= mid < high <= k, the window high - low
\* shrinks in every iteration that does not return, and the loop runs at most
\* floor(log2(k)) + 1 times (never for the empty list).
C10_LoopBounds ==
    /\ [](ret \in {"running", "true", "false"} =>
            /\ 0 <= low /\ low <= high /\ high <= Len(ranges)
            /\ (ret = "running" /\ low < high) =>
                   (low <= Mid(low, high) /\ Mid(low, high) < high)
            /\ iters <= (IF Len(ranges) = 0 THEN 0 ELSE FloorLog2(Len(ranges)) + 1))
    /\ [][(ret = "running" /\ ret' = "running") =>
             (high' - low' < high - low)]_vars

\* C10 witness: a miss on three ranges that took floor(log2(3)) + 1 = 2
\* iterations.
C10_Witness ==
    ret = "false" /\ Len(ranges) = 3 /\ iters = FloorLog2(3) + 1

(***************************************************************************)
(* remove_ansi_colors and parse_lint_location                              *)
(***************************************************************************)
ESC == "ESC"

DigitChars == <<"0", "1", "2", "3", "4", "5", "6", "7", "8", "9">>

AsciiDigits == {DigitChars[i] : i \in 1..10}

\* Decimal digits outside ASCII (general category Nd).
NonAsciiDigits == {"u0663"}

IsAsciiDigit(c) == c \in AsciiDigits

\* \d of the regex crate on a &str: Unicode-aware, any decimal digit.
IsDigit(c) == c \in AsciiDigits \cup NonAsciiDigits

\* [0-9;] is a literal class: ASCII only.
IsAnsiParam(c) == c \in AsciiDigits \cup {";"}

\* . matches any character except a line feed.
IsDot(c) == c # "\n"

\* The first index >= j whose character is not in [0-9;] (Len + 1 if none).
RECURSIVE ParamsEnd(_, _)
ParamsEnd(s, j) ==
    IF j <= Len(s) /\ IsAnsiParam(s[j]) THEN ParamsEnd(s, j + 1) ELSE j

\* Where a match of \x1b\[[0-9;]*m that starts at i ends; 0 when there is none.
AnsiMatchEnd(s, i) ==
    IF i + 1 <= Len(s) /\ s[i] = ESC /\ s[i + 1] = "["
    THEN LET j == ParamsEnd(s, i + 2)
         IN  IF j <= Len(s) /\ s[j] = "m" THEN j ELSE 0
    ELSE 0

\* replace_all(text, ""): one pass, leftmost matches, none overlapping.
RECURSIVE ReplaceAllFrom(_, _)
ReplaceAllFrom(s, i) ==
    IF i > Len(s) THEN <<>>
    ELSE LET e == AnsiMatchEnd(s, i)
         IN  IF e > 0 THEN ReplaceAllFrom(s, e + 1)
             ELSE <<s[i]>> \o ReplaceAllFrom(s, i + 1)

remove_ansi_colors(t) == ReplaceAllFrom(t, 1)

\* ':' at j with \d right after it.
ColonDigitAt(s, j) == j + 1 <= Len(s) /\ s[j] = ":" /\ IsDigit(s[j + 1])

\* The ':' positions group 1 can stop before when the match starts at i.
ColonsAfter(s, i) ==
    {j \in (i + 1)..Len(s) : ColonDigitAt(s, j) /\ \A k \in i..(j - 1) : IsDot(s[k])}

\* LazyColon with a greedy group 1, (.+) instead of (.+?): the last ':'.
LazyColon_greedy(s, i) ==
    IF ColonsAfter(s, i) = {} THEN 0
    ELSE CHOOSE j \in ColonsAfter(s, i) : \A k \in ColonsAfter(s, i) : k <= j

\* (.+?): from start i, the nearest ':' that lets the rest match; 0 if none.
LazyColon(s, i) ==
    IF ColonsAfter(s, i) = {} THEN 0 ELSE Min(ColonsAfter(s, i))

\* (\d+) is greedy: the last index of the digit run that starts at j.
RECURSIVE DigitRunEnd(_, _)
DigitRunEnd(s, j) ==
    IF j + 1 <= Len(s) /\ IsDigit(s[j + 1]) THEN DigitRunEnd(s, j + 1) ELSE j

NoCaptures == [matched |-> FALSE, g1 |-> <<>>, g2 |-> <<>>]

\* regex.captures(line) for (.+?):(\d+): the leftmost start that matches.
Captures(s) ==
    LET starts == {i \in 1..Len(s) : LazyColon(s, i) # 0}
    IN  IF starts = {} THEN NoCaptures
        ELSE LET i == Min(starts)
                 j == LazyColon(s, i)
             IN  [matched |-> TRUE,
                  g1 |-> SubSeq(s, i, j - 1),
                  g2 |-> SubSeq(s, j + 1, DigitRunEnd(s, j + 1))]

DigitVal(c) == (CHOOSE i \in 1..10 : DigitChars[i] = c) - 1

RECURSIVE StripZeros(_)
StripZeros(ds) ==
    IF Len(ds) > 1 /\ ds[1] = "0" THEN StripZeros(Tail(ds)) ELSE ds

RECURSIVE DecValue(_)
DecValue(ds) ==
    IF ds = <<>> THEN 0
    ELSE 10 * DecValue(SubSeq(ds, 1, Len(ds) - 1)) + DigitVal(ds[Len(ds)])

\* u32::MAX, 4294967295, digit by digit.
U32MaxDigits == <<"4", "2", "9", "4", "9", "6", "7", "2", "9", "5">>

\* a <= b for two digit strings of one length.
RECURSIVE LexLeq(_, _)
LexLeq(a, b) ==
    \/ a = <<>>
    \/ DigitVal(a[1]) < DigitVal(b[1])
    \/ (a[1] = b[1] /\ LexLeq(Tail(a), Tail(b)))

FitsU32(ds) ==
    LET t == StripZeros(ds)
    IN  Len(t) < Len(U32MaxDigits)
        \/ (Len(t) = Len(U32MaxDigits) /\ LexLeq(t, U32MaxDigits))

\* str::parse::<u32> on a non-empty run matched by \d+: Err on a character
\* that is not an ASCII digit and on overflow.
parse_u32(ds) ==
    IF (\A i \in 1..Len(ds) : IsAsciiDigit(ds[i])) /\ FitsU32(ds)
    THEN [ok |-> TRUE, value |-> DecValue(StripZeros(ds))]
    ELSE [ok |-> FALSE, value |-> 0]

NoLocation == [some |-> FALSE, filename |-> <<>>, line_num |-> 0]

SomeLocation(f, n) == [some |-> TRUE, filename |-> f, line_num |-> n]

parse_lint_location(line) ==
    LET captures == Captures(line)
    IN  IF ~captures.matched THEN NoLocation
        ELSE IF ~parse_u32(captures.g2).ok THEN NoLocation
        ELSE SomeLocation(captures.g1, parse_u32(captures.g2).value)

\* Lines of linter output, with and without a location.
SampleLines ==
    { <<"a", ":", "1">>,
      <<"a", ":", "2", ":", "7", ":", " ", "E">>,
      <<ESC, "[", "3", "1", "m", "a", ":", "1", ":", " ", "E", ESC, "[", "0", "m">>,
      <<"a", ":", "3">>,
      <<"b", ":", "1">>,
      <<"S", ":", " ", "3">>,
      <<"a", ":", "4", "2", "9", "4", "9", "6", "7", "2", "9", "6">>,
      <<"a", ":", "u0663">>,
      <<"a", ":", "1", "xFF">> }

ValidUtf8(bytes) == \A i \in 1..Len(bytes) : bytes[i] # "xFF"

ParseAlphabet == {"a", ":", "0", "7", "u0663"}

ParseTexts ==
    SeqsUpTo(ParseAlphabet, MaxTextLen)
        \cup {l \in SampleLines : ValidUtf8(l)}
        \cup { <<"a", ":", "2", "1", "4", "7", "4", "8", "3", "6", "4", "7">>,
               <<"a", ":", "0", "0", "0", "0", "0", "0", "0", "0", "0", "0", "7">>,
               <<"a", ":", "9", "9", "9", "9", "9", "9", "9", "9", "9", "9", "9">>,
               <<ESC, "[", ESC, "[", "m", "m", "a", ":", "1">>,
               <<"a", ":", ESC, "[", "1", ";", "3", "1", "m", "5">> }

ParseInit ==
    /\ text \in ParseTexts
    /\ stripped = <<>>
    /\ location = NoLocation
    /\ ppc = "strip"
    /\ SearchIdleVars
    /\ MainIdleVars

\* remove_ansi_colors(&line)
StripLine ==
    /\ ppc = "strip"
    /\ stripped' = remove_ansi_colors(text)
    /\ ppc' = "parse"
    /\ UNCHANGED <<text, location>>
    /\ UNCHANGED searchVars
    /\ UNCHANGED mainVars

\* parse_lint_location(&stripped, &python_regex)
ParseLine ==
    /\ ppc = "parse"
    /\ location' = parse_lint_location(stripped)
    /\ ppc' = "done"
    /\ UNCHANGED <<text, stripped>>
    /\ UNCHANGED searchVars
    /\ UNCHANGED mainVars

ParseNext == StripLine \/ ParseLine

ParseSpec == ParseInit /\ [][ParseNext]_vars

(***************************************************************************)
(* Claims about parse_lint_location (ParseSpec)                            *)
(***************************************************************************)
Max(S) == CHOOSE x \in S : \A y \in S : y <= x

\* The maximal run of characters satisfying IsD(_) that starts at j.
RunFrom(s, j, IsD(_)) ==
    SubSeq(s, j, Max({k \in j..Len(s) : \A m \in j..k : IsD(s[m])}))

\* The location C7 describes: the earliest ':' with text before it and an
\* ASCII digit after it; the value of the digit run, if it fits 32 bits.
ClaimedLocation(s) ==
    LET colons == {j \in 2..(Len(s) - 1) : s[j] = ":" /\ IsAsciiDigit(s[j + 1])}
    IN  IF colons = {} THEN NoLocation
        ELSE LET j == Min(colons)
                 run == RunFrom(s, j + 1, IsAsciiDigit)
             IN  IF FitsU32(run)
                 THEN SomeLocation(SubSeq(s, 1, j - 1), DecValue(StripZeros(run)))
                 ELSE NoLocation

\* The location the regex and the u32 parse give: decimal digits of any
\* script select the ':' and extend the run, and only an all-ASCII run that
\* fits 32 bits has a value.
AmendedLocation(s) ==
    LET colons == {j \in 2..(Len(s) - 1) : s[j] = ":" /\ IsDigit(s[j + 1])}
    IN  IF colons = {} THEN NoLocation
        ELSE LET j == Min(colons)
                 run == RunFrom(s, j + 1, IsDigit)
             IN  IF (\A m \in 1..Len(run) : IsAsciiDigit(run[m])) /\ FitsU32(run)
                 THEN SomeLocation(SubSeq(s, 1, j - 1), DecValue(StripZeros(run)))
                 ELSE NoLocation

\* C7 as stated: the parsed location is the text before the earliest ':'
\* followed by a digit and the value of the digit run after it, and there is no
\* location only when no such ':' exists or the run does not fit 32 bits.
C7_FirstColonDigit == (ppc = "done") => location = ClaimedLocation(stripped)

\* C7 amended: the ':' is the earliest one, not the first character of the
\* line, that is followed by a decimal digit of any script; the line number is
\* the value of the maximal run of such digits; there is no location when no
\* such ':' exists, when the run holds a digit that is not ASCII, or when its
\* value does not fit an unsigned 32-bit integer.
C7_FirstColonDigitAmended == (ppc = "done") => location = AmendedLocation(stripped)

\* C7 witness: a coloured line with a second ':' group after the line number
\* parses, once stripped, to its first pair.
C7_Witness ==
    /\ ppc = "done"
    /\ text # stripped
    /\ stripped = <<"a", ":", "1", ":", " ", "E">>
    /\ location = SomeLocation(<<"a">>, 1)

(***************************************************************************)
(* generate_hunkmap: the callbacks of diff.foreach                         *)
(***************************************************************************)
\* git2::Delta values a diff of a tree against the working directory holds.
Statuses == {"Modified", "Added", "Deleted"}

\* New-side paths as bytes; the last is not valid UTF-8.
DiffPaths == {<<"a">>, <<"b">>, <<"a", "xFF">>}

\* hunk.new_start() and hunk.new_lines() of the hunks delivered.
HunkStarts == {1, 2}

HunkLineCounts == {0, 1}

FileEvent(status, path) ==
    [kind |-> "file", status |-> status, path |-> path, new_start |-> 0, new_lines |-> 0]

HunkEvent(new_start, new_lines) ==
    [kind |-> "hunk", status |-> "", path |-> <<>>,
     new_start |-> new_start, new_lines |-> new_lines]

\* The delta a hunk callback is called for: the last file callback's.
RECURSIVE CurrentFile(_)
CurrentFile(es) ==
    IF es[Len(es)].kind = "file" THEN es[Len(es)]
    ELSE CurrentFile(SubSeq(es, 1, Len(es) - 1))

\* ContributesRanges with the match on file.status() left out.
ContributesRanges_any_status(status) == TRUE

\* match file.status() { Delta::Modified => ..., _ => true }
ContributesRanges(status) == status = "Modified"

\* (hunk.new_start(), hunk.new_start() + hunk.new_lines())
hunk_edges(new_start, new_lines) == <<new_start, new_start + new_lines>>

\* hunkmap.entry(path.into()).or_insert_with(Vec::new).push(edges)
PushRange(map, path, edges) ==
    [p \in DOMAIN map \cup {path} |->
        IF p = path
        THEN Append(IF p \in DOMAIN map THEN map[p] ELSE <<>>, edges)
        ELSE map[p]]

\* Err(..) returned from main: the runtime reports it and exits with failure.
ExitFailure == 1

\* The exit status of a panic.
ExitPanic == 101

Exits(how, code) ==
    /\ pc' = "exited"
    /\ ending' = how
    /\ exit_code' = code

\* The file callback (lines 64-68): path().unwrap().to_str().unwrap() panics
\* on a path that is not UTF-8.
FileCb(status, path) ==
    /\ pc = "foreach"
    /\ Len(events) < MaxEvents
    /\ events' = Append(events, FileEvent(status, path))
    /\ IF ValidUtf8(path)
       THEN UNCHANGED <<pc, ending, exit_code>>
       ELSE Exits("setup_panic", ExitPanic)
    /\ UNCHANGED <<hunkmap, stdin_read, stdout, failed>>
    /\ UNCHANGED searchVars
    /\ UNCHANGED parseVars

\* The hunk callback (lines 70-82).
HunkCb(new_start, new_lines) ==
    /\ pc = "foreach"
    /\ Len(events) < MaxEvents
    /\ events # <<>>
    /\ events' = Append(events, HunkEvent(new_start, new_lines))
    /\ hunkmap' = IF ContributesRanges(CurrentFile(events).status)
                  THEN PushRange(hunkmap, CurrentFile(events).path,
                                 hunk_edges(new_start, new_lines))
                  ELSE hunkmap
    /\ UNCHANGED <<pc, ending, exit_code, stdin_read, stdout, failed>>
    /\ UNCHANGED searchVars
    /\ UNCHANGED parseVars

\* foreach returns Ok: Ok(hunkmap), and main goes on to the input loop.
ForeachOk ==
    /\ pc = "foreach"
    /\ pc' = "loop"
    /\ UNCHANGED <<events, hunkmap, ending, exit_code, stdin_read, stdout, failed>>
    /\ UNCHANGED searchVars
    /\ UNCHANGED parseVars

\* foreach returns Err: "Issue when iterating over diff", propagated by ?.
ForeachErr ==
    /\ pc = "foreach"
    /\ Exits("setup_error", ExitFailure)
    /\ UNCHANGED <<events, hunkmap, stdin_read, stdout, failed>>
    /\ UNCHANGED searchVars
    /\ UNCHANGED parseVars

\* let mut hunkmap = HashMap::new();
HunkInit ==
    /\ pc = "foreach"
    /\ events = <<>>
    /\ hunkmap = <<>>
    /\ ending = "none"
    /\ stdin_read = <<>>
    /\ stdout = <<>>
    /\ failed = FALSE
    /\ exit_code = -1
    /\ SearchIdleVars
    /\ ParseIdleVars

\* Any sequence of callbacks: deltas and hunks in any order.
HunkNext ==
    \/ \E status \in Statuses, path \in DiffPaths : FileCb(status, path)
    \/ \E new_start \in HunkStarts, new_lines \in HunkLineCounts :
           HunkCb(new_start, new_lines)
    \/ ForeachOk
    \/ ForeachErr

HunkSpec == HunkInit /\ [][HunkNext]_vars

(***************************************************************************)
(* Claims about generate_hunkmap (HunkSpec)                                *)
(***************************************************************************)
\* The index of the file callback that hunk callback i belongs to.
OwnerOf(i) == Max({k \in 1..i : events[k].kind = "file"})

\* The hunk callbacks of modified deltas whose new-side path is p.
HunksOf(p) ==
    {i \in 1..Len(events) :
        /\ events[i].kind = "hunk"
        /\ events[OwnerOf(i)].status = "Modified"
        /\ events[OwnerOf(i)].path = p}

\* The elements of a set of indices in ascending order.
Ascending(S) ==
    [k \in 1..Cardinality(S) |->
        CHOOSE i \in S : Cardinality({j \in S : j < i}) = k - 1]

ExpectedRanges(p) ==
    [k \in 1..Cardinality(HunksOf(p)) |->
        <<events[Ascending(HunksOf(p))[k]].new_start,
          events[Ascending(HunksOf(p))[k]].new_start
              + events[Ascending(HunksOf(p))[k]].new_lines>>]

\* C6: the map returned has a key exactly for each new-side path of a modified
\* delta with at least one hunk, and its value lists (new_start,
\* new_start + new_lines) per hunk of that path in the order the hunks came,
\* unmerged, unsorted, duplicates kept; other kinds of delta add nothing.
C6_HunkmapOfModified ==
    (pc = "loop") =>
        /\ DOMAIN hunkmap = {p \in DiffPaths : HunksOf(p) # {}}
        /\ \A p \in DOMAIN hunkmap : hunkmap[p] = ExpectedRanges(p)

\* C6 witness: a modified file whose two hunks came out of order and are kept
\* in that order, then an added file that left no key.
C6_Witness ==
    /\ pc = "loop"
    /\ events = <<FileEvent("Modified", <<"a">>), HunkEvent(2, 1), HunkEvent(1, 0),
                  FileEvent("Added", <<"b">>)>>
    /\ DOMAIN hunkmap = {<<"a">>}
    /\ hunkmap[<<"a">>] = <<<<2, 3>>, <<1, 1>>>>

(***************************************************************************)
(* main                                                                    *)
(***************************************************************************)
\* What libgit2 delivers for a tree-to-workdir diff: each path in one delta.
GitFileOrder(path) ==
    \A i \in 1..Len(events) : events[i].kind = "file" => events[i].path # path

\* With context_lines(0) the hunks of a delta come in ascending order with at
\* least one unchanged line between two of them; a hunk that adds no line
\* starts at the line before the deletion.
GitHunkOrder(new_start, new_lines) ==
    (events # <<>> /\ events[Len(events)].kind = "hunk") =>
        new_start >= events[Len(events)].new_start + events[Len(events)].new_lines
                       + (IF events[Len(events)].new_lines = 0 THEN 1 ELSE 0)
                       + (IF new_lines > 0 THEN 1 ELSE 0)

\* The lines standard input can hold.
InputLines ==
    { <<"a", ":", "1">>,
      <<"a", ":", "2", ":", "7", ":", " ", "E">>,
      <<ESC, "[", "3", "1", "m", "a", ":", "1", ":", " ", "E", ESC, "[", "0", "m">>,
      <<"b", ":", "1">>,
      <<"S", ":", " ", "3">>,
      <<"a", ":", "4", "2", "9", "4", "9", "6", "7", "2", "9", "6">>,
      <<"a", ":", "1", "xFF">> }

\* Lines 119-123: the three nested conditions of the loop body.
LineMatches(map, line) ==
    LET loc == parse_lint_location(remove_ansi_colors(line))
    IN  /\ loc.some
        /\ loc.filename \in DOMAIN map
        /\ is_number_in_sorted_ranges(map[loc.filename], loc.line_num)

\* EmittedLine printing the stripped text instead of the line read.
EmittedLine_stripped(line) == remove_ansi_colors(line)

\* println!("{}", line)
EmittedLine(line) == line

\* NextFailed assigning the flag on every line instead of only on a match.
NextFailed_assigned(flag, matched) == matched

\* failed = true, inside the innermost if.
NextFailed(flag, matched) == flag \/ matched

\* if failed { process::exit(1) } else { Ok(()) }
ExitStatus(flag) == IF flag THEN 1 ELSE 0

\* CanRead with the input loop entered while the diff is still traversed.
CanRead_before_hunkmap == pc \in {"foreach", "loop"}

\* stdin.lock().lines() is reached only after generate_hunkmap returned Ok.
CanRead == pc = "loop"

Init ==
    /\ pc = "open"
    /\ events = <<>>
    /\ hunkmap = <<>>
    /\ ending = "none"
    /\ stdin_read = <<>>
    /\ stdout = <<>>
    /\ failed = FALSE
    /\ exit_code = -1
    /\ SearchIdleVars
    /\ ParseIdleVars

\* Repository::open(args.path).context("Can't open repository")?
OpenRepo ==
    /\ pc = "open"
    /\ \/ /\ pc' = "get_diff"
          /\ UNCHANGED <<ending, exit_code>>
       \/ Exits("setup_error", ExitFailure)
    /\ UNCHANGED <<events, hunkmap, stdin_read, stdout, failed>>
    /\ UNCHANGED searchVars
    /\ UNCHANGED parseVars

\* get_diff: revparse_single, peel_to_tree, diff_tree_to_workdir_with_index,
\* each propagated by ? when it fails.
GetDiff ==
    /\ pc = "get_diff"
    /\ \E outcome \in {"ok", "revparse", "peel", "diff"} :
           IF outcome = "ok"
           THEN pc' = "foreach" /\ UNCHANGED <<ending, exit_code>>
           ELSE Exits("setup_error", ExitFailure)
    /\ UNCHANGED <<events, hunkmap, stdin_read, stdout, failed>>
    /\ UNCHANGED searchVars
    /\ UNCHANGED parseVars

\* One pass of the loop body on a line that lines() yields as Ok.
ReadLine(line) ==
    /\ CanRead
    /\ Len(stdin_read) < MaxInput
    /\ ValidUtf8(line)
    /\ stdin_read' = Append(stdin_read, line)
    /\ stdout' = IF LineMatches(hunkmap, line)
                 THEN Append(stdout, EmittedLine(line))
                 ELSE stdout
    /\ failed' = NextFailed(failed, LineMatches(hunkmap, line))
    /\ UNCHANGED <<pc, events, hunkmap, ending, exit_code>>
    /\ UNCHANGED searchVars
    /\ UNCHANGED parseVars

\* lines() yields Err(InvalidData) for a line that is not UTF-8, and
\* line.expect("Could not read line from stdin") panics.
ReadInvalidUtf8(line) ==
    /\ CanRead
    /\ Len(stdin_read) < MaxInput
    /\ ~ValidUtf8(line)
    /\ stdin_read' = Append(stdin_read, line)
    /\ Exits("loop_panic", ExitPanic)
    /\ UNCHANGED <<events, hunkmap, stdout, failed>>
    /\ UNCHANGED searchVars
    /\ UNCHANGED parseVars

\* println! panics when standard output cannot be written (a closed pipe).
PrintlnFails(line) ==
    /\ CanRead
    /\ Len(stdin_read) < MaxInput
    /\ ValidUtf8(line)
    /\ LineMatches(hunkmap, line)
    /\ stdin_read' = Append(stdin_read, line)
    /\ Exits("loop_panic", ExitPanic)
    /\ UNCHANGED <<events, hunkmap, stdout, failed>>
    /\ UNCHANGED searchVars
    /\ UNCHANGED parseVars

\* End of input: lines 130-134.
ReadEof ==
    /\ CanRead
    /\ Exits("eof", ExitStatus(failed))
    /\ UNCHANGED <<events, hunkmap, stdin_read, stdout, failed>>
    /\ UNCHANGED searchVars
    /\ UNCHANGED parseVars

Next ==
    \/ OpenRepo
    \/ GetDiff
    \/ \E status \in Statuses, path \in DiffPaths :
           GitFileOrder(path) /\ FileCb(status, path)
    \/ \E new_start \in HunkStarts, new_lines \in HunkLineCounts :
           GitHunkOrder(new_start, new_lines) /\ HunkCb(new_start, new_lines)
    \/ ForeachOk
    \/ ForeachErr
    \/ \E line \in InputLines : ReadLine(line)
    \/ \E line \in InputLines : ReadInvalidUtf8(line)
    \/ \E line \in InputLines : PrintlnFails(line)
    \/ ReadEof

Spec == Init /\ [][Next]_vars

(***************************************************************************)
(* Claims about main (Spec)                                                *)
(***************************************************************************)
\* What the filter is to keep, by a linear scan of the file's ranges.
Wanted(line) ==
    LET loc == parse_lint_location(remove_ansi_colors(line))
    IN  /\ loc.some
        /\ loc.filename \in DOMAIN hunkmap
        /\ InSomeRange(hunkmap[loc.filename], loc.line_num)

ColouredLine ==
    <<ESC, "[", "3", "1", "m", "a", ":", "1", ":", " ", "E", ESC, "[", "0", "m">>

C3_ExitStatusIsMatchFlag ==
    /\ ~failed
    /\ [](ending = "eof" =>
            /\ (exit_code = 1 <=> stdout # <<>>)
            /\ (exit_code = 0 <=> stdout = <<>>))
    /\ [][failed' = (failed \/ Len(stdout') > Len(stdout))]_vars

\* C3 witness: a match followed by a line that does not match, then end of
\* input with status 1.
C3_Witness ==
    /\ ending = "eof"
    /\ exit_code = 1
    /\ stdin_read = <<<<"a", ":", "1">>, <<"S", ":", " ", "3">>>>
    /\ stdout = <<<<"a", ":", "1">>>>

\* C4: a fatal setup error ends the process with a status that is neither 0
\* (no line matched) nor 1 (a line matched).
C4_SetupErrorStatusDistinct ==
    (ending = "setup_error") => (exit_code # 0 /\ exit_code # 1)

\* C5: a line that is not valid UTF-8 counts as no match for that line only:
\* nothing is written for it, the run does not abort and goes on reading.
C5_BadLineIsSkipped ==
    (stdin_read # <<>> /\ ~ValidUtf8(stdin_read[Len(stdin_read)])) =>
        (pc = "loop" /\ ending = "none")

\* C8: opening the repository, resolving the reference, building the diff and
\* building the hunk map all come before the first read of standard input: in
\* every state before the loop, and after any exit from setup, no line has
\* been read and none written.
C8_SetupBeforeInput ==
    (pc # "loop" /\ ending \notin {"eof", "loop_panic"}) =>
        (stdin_read = <<>> /\ stdout = <<>>)

\* C8 witness: the traversal of the diff failed after it had delivered a
\* modified file and a hunk; nothing was read or written.
C8_Witness ==
    /\ ending = "setup_error"
    /\ Len(events) = 2
    /\ hunkmap # <<>>
    /\ stdin_read = <<>>
    /\ stdout = <<>>

====
